---- MODULE Spec2Model ----
(***************************************************************************)
(* A model of gameoflife.js: Conway's Game of Life computed and drawn by   *)
(* WebGPU.  The host function updateGrid records one compute pass and one  *)
(* render pass per tick and submits them to the device queue; the compute  *)
(* shader computeMain reads one cell-state storage buffer and writes the   *)
(* other; the two bind groups swap the buffers' roles by the parity of     *)
(* `step`.                                                                 *)
(*                                                                         *)
(* The specifications share the variables:                                 *)
(*   Spec        the host (updateGrid, statement by statement, with the    *)
(*               exceptions its calls can raise) and the device queue,     *)
(*               from the moment run() has reached setInterval;            *)
(*   SpecFair    Spec with a device queue that keeps executing;            *)
(*   SpecStartup run() from its first statement, then as Spec;             *)
(*   SpecKernel  computeMain applied to one invocation of a dispatch;      *)
(*   SpecRuns    the same ticks executed by two runs of the program.       *)
(***************************************************************************)
EXTENDS Integers, Sequences, FiniteSets, TLC

\* ---------------------------------------------------------------- bounds

\* GRID_SIZE ranges over 1..MaxGrid.
MaxGrid == 4
\* WORKGROUP_SIZE ranges over 1..MaxTile (in Spec over the sizes among them
\* that divide GRID_SIZE, as 8 divides 32).
MaxTile == 3
\* SpecKernel: the cells 0..MaxCells-1 of the initial grid take every 0/1 value.
MaxCells == 9
\* Spec, SpecRuns: the initial grid is a run of at most MaxRun live cells (in
\* Spec a run from cell (0, 0), in SpecRuns a run from any cell).
MaxRun == 3
\* Spec: updateGrid is entered while step < MaxStep.
MaxStep == 3
\* SpecRuns: the two runs execute at most MaxRunTicks ticks.
MaxRunTicks == 2

VARIABLES
    GRID_SIZE,          \* line 3 (a tunable constant: fixed by Init)
    WORKGROUP_SIZE,     \* line 14 (a tunable constant: fixed by Init)
    cellStateArray,     \* line 274: the host's Uint32Array, filled at 290-292
    cellStateStorage,   \* line 277: the two storage buffers, [0] = A, [1] = B
    step,               \* line 341
    pc,                 \* the host's position inside run() and updateGrid
    resources,          \* lines 67-337: what the creation calls of run() returned
    encoder,            \* line 345: the passes recorded so far in this tick
    queue,              \* device.queue: every command buffer submitted, in order
    gpuBatch,           \* command buffers the device has executed completely
    gpuPass,            \* passes of command buffer gpuBatch+1 executed so far
    canvas,             \* what the last executed render pass drew, by grid square
    completion,         \* how the last call of updateGrid ended: "normal", "throw"
    invocation,         \* SpecKernel: the invocation of computeMain examined
    rerunStorage        \* SpecRuns: the storage buffers of the second run

vars == <<GRID_SIZE, WORKGROUP_SIZE, cellStateArray, cellStateStorage, step, pc,
          resources, encoder, queue, gpuBatch, gpuPass, canvas, completion, invocation,
          rerunStorage>>

\* ------------------------------------------------ 32-bit unsigned integers

\* A u32 is kept as two 16-bit limbs <<high, low>>, so that 2^32 - 1 is a value
\* of the model and x - 1 wraps at 0 the way WGSL's u32 subtraction does.
Limb == 2^16

U32(n) == <<(n \div Limb) % Limb, n % Limb>>

\* x + 1 on u32
U32Inc(u) == IF u[2] + 1 < Limb THEN <<u[1], u[2] + 1>>
             ELSE <<(u[1] + 1) % Limb, 0>>

\* x - 1 that stops at 0 instead of wrapping to 2^32 - 1
U32DecSaturating(u) == IF u[2] > 0 THEN <<u[1], u[2] - 1>>
                       ELSE IF u[1] > 0 THEN <<u[1] - 1, Limb - 1>> ELSE u

\* x - 1 on u32: wraps from 0 to 2^32 - 1
U32Dec(u) == IF u[2] > 0 THEN <<u[1], u[2] - 1>>
             ELSE <<(u[1] + Limb - 1) % Limb, Limb - 1>>

\* u % m for a u32 u and a small m >= 1
U32Rem(u, m) == (((u[1] % m) * (Limb % m)) + (u[2] % m)) % m

\* ------------------------------------------------------ the compute shader

Cells == 0 .. (GRID_SIZE * GRID_SIZE - 1)

\* Robust buffer access: an index outside the buffer reads 0.  No index the
\* shader computes is outside (cellIndex reduces both components).
Load(buffer, i) == IF i \in DOMAIN buffer THEN buffer[i] ELSE 0

\* y * width + x without the reductions modulo the grid size (on the low
\* limbs of x and y)
cellIndexUnreduced(cell) == cell[2][2] * GRID_SIZE + cell[1][2]

\* fn cellIndex(cell: vec2u) -> u32; cell = <<x, y>>, u32(grid.x) = u32(grid.y)
\* = GRID_SIZE (uniformArray, line 264)
cellIndex(cell) ==
    U32Rem(cell[2], GRID_SIZE) * GRID_SIZE + U32Rem(cell[1], GRID_SIZE)

\* cells outside the grid read as dead instead of wrapping
cellActiveClamped(cellStateIn, x, y) ==
    IF x[1] > 0 \/ x[2] >= GRID_SIZE \/ y[1] > 0 \/ y[2] >= GRID_SIZE THEN 0
    ELSE Load(cellStateIn, y[2] * GRID_SIZE + x[2])

\* fn cellActive(x, y) -> u32
cellActive(cellStateIn, x, y) == Load(cellStateIn, cellIndex(<<x, y>>))

\* The eight (x, y) arguments of cellActive in computeMain, in source order.
NeighborArgs(cell) ==
    LET x == cell[1]
        y == cell[2]
    IN  << <<U32Inc(x), U32Inc(y)>>,
           <<U32Inc(x), y>>,
           <<U32Inc(x), U32Dec(y)>>,
           <<x, U32Dec(y)>>,
           <<U32Dec(x), U32Dec(y)>>,
           <<U32Dec(x), y>>,
           <<U32Dec(x), U32Inc(y)>>,
           <<x, U32Inc(y)>> >>

RECURSIVE SumSeq(_)
SumSeq(s) == IF s = <<>> THEN 0 ELSE Head(s) + SumSeq(Tail(s))

\* let activeNeighbors = cellActive(..) + ... + cellActive(..), over the
\* eight arguments `args`
ActiveNeighbors(cellStateIn, args) ==
    SumSeq([k \in 1..8 |-> cellActive(cellStateIn, args[k][1], args[k][2])])

\* case 3 keeps the cell's value: no cell is born
SwitchClausesNoBirth(cellStateIn, i) ==
    << [selector |-> 2, default |-> FALSE, value |-> Load(cellStateIn, i)],
       [selector |-> 3, default |-> FALSE, value |-> Load(cellStateIn, i)],
       [selector |-> 0, default |-> TRUE,  value |-> 0] >>

\* case 3 stores the neighbour count instead of 1
SwitchClausesBirthAsCount(cellStateIn, i) ==
    << [selector |-> 2, default |-> FALSE, value |-> Load(cellStateIn, i)],
       [selector |-> 3, default |-> FALSE, value |-> 3],
       [selector |-> 0, default |-> TRUE,  value |-> 0] >>

\* The switch of computeMain as its clauses in source order: the selector of
\* each (0 marks default) and the value its body stores to cellStateOut[i].
SwitchClauses(cellStateIn, i) ==
    << [selector |-> 2, default |-> FALSE, value |-> Load(cellStateIn, i)],
       [selector |-> 3, default |-> FALSE, value |-> 1],
       [selector |-> 0, default |-> TRUE,  value |-> 0] >>

\* C-style fall-through: the matching clause and every clause after it run.
SwitchFallThrough(clauses, n) ==
    LET hit == {k \in 1..Len(clauses) : ~clauses[k].default /\ clauses[k].selector = n}
        first == IF hit = {} THEN CHOOSE k \in 1..Len(clauses) : clauses[k].default
                 ELSE CHOOSE k \in hit : \A j \in hit : k <= j
    IN  SubSeq(clauses, first, Len(clauses))

\* WGSL's switch: exactly one clause runs, the case whose selector equals n,
\* or the default clause when none does; control does not fall through.
Switch(clauses, n) ==
    LET hit == {k \in 1..Len(clauses) : ~clauses[k].default /\ clauses[k].selector = n}
        first == IF hit = {} THEN CHOOSE k \in 1..Len(clauses) : clauses[k].default
                 ELSE CHOOSE k \in hit : \A j \in hit : k <= j
    IN  <<clauses[first]>>

\* fn computeMain(cell): what one invocation reads and stores.  `id` is the
\* invocation's global_invocation_id.xy as naturals.
computeMain(cellStateIn, id) ==
    LET cell == <<U32(id[1]), U32(id[2])>>
        args == NeighborArgs(cell)
        n    == ActiveNeighbors(cellStateIn, args)
        i    == cellIndex(cell)
        ran  == Switch(SwitchClauses(cellStateIn, i), n)
    IN  [id              |-> id,
         reads           |-> [k \in 1..8 |-> cellIndex(args[k])],
         activeNeighbors |-> n,
         i               |-> i,
         writes          |-> [k \in 1..Len(ran) |-> <<i, ran[k].value>>]]

\* const workgroupCount = Math.ceil(GRID_SIZE / WORKGROUP_SIZE)
workgroupCount == (GRID_SIZE + WORKGROUP_SIZE - 1) \div WORKGROUP_SIZE

\* The global invocation ids of dispatchWorkgroups(workgroupCount,
\* workgroupCount) with @workgroup_size(WORKGROUP_SIZE, WORKGROUP_SIZE).
Invocations ==
    (0 .. (workgroupCount * WORKGROUP_SIZE - 1)) \X (0 .. (workgroupCount * WORKGROUP_SIZE - 1))

\* ------------------------------------------------- a dispatch on the device

\* The stores one invocation leaves behind: for each index it stored to, the
\* value of its last store there.
FinalStores(r) ==
    {r.writes[k] : k \in {j \in 1..Len(r.writes) :
                            \A l \in (j+1)..Len(r.writes) : r.writes[l][1] # r.writes[j][1]}}

\* Every invocation's stores <<index, value, id of the invocation>>.  The
\* invocations of a dispatch run in no defined order, each reading
\* cellStateIn and storing to cellStateOut.
DispatchStores(cellStateIn) ==
    UNION {{<<s[1], s[2], id>> : s \in FinalStores(computeMain(cellStateIn, id))} :
             id \in Invocations}

StoredAt(stores, i) == {s[2] : s \in {t \in stores : t[1] = i}}

Smallest(S) == CHOOSE v \in S : \A w \in S : v <= w
Largest(S)  == CHOOSE v \in S : \A w \in S : v >= w

\* The contents cellStateOut can have when the compute pass ends: a cell no
\* invocation stored to keeps its value, a cell stored to holds the value of
\* whichever store came last (any of them: the stored values are 0 or 1, so
\* the choice is between the smallest and the largest), and a store outside
\* the buffer is dropped.
ComputePassOutcomes(cellStateIn, cellStateOut) ==
    LET stores == DispatchStores(cellStateIn)
        least  == [i \in DOMAIN cellStateOut |->
                     LET at == StoredAt(stores, i)
                     IN  IF at = {} THEN cellStateOut[i] ELSE Smallest(at)]
        most   == [i \in DOMAIN cellStateOut |->
                     LET at == StoredAt(stores, i)
                     IN  IF at = {} THEN cellStateOut[i] ELSE Largest(at)]
        raced  == {i \in DOMAIN cellStateOut : least[i] # most[i]}
    IN  {[i \in DOMAIN cellStateOut |-> IF i \in S THEN most[i] ELSE least[i]] :
            S \in SUBSET raced}

\* Invocation a runs before invocation b when the invocations run one after
\* another by rows of global id.
Before(a, b) == a[2] < b[2] \/ (a[2] = b[2] /\ a[1] < b[1])

\* The one member of ComputePassOutcomes a device produces that runs the
\* invocations one after another in that order.
SequentialOutcome(cellStateIn, cellStateOut) ==
    LET stores == DispatchStores(cellStateIn)
    IN  [i \in DOMAIN cellStateOut |->
           LET at == {t \in stores : t[1] = i}
           IN  IF at = {} THEN cellStateOut[i]
               ELSE (CHOOSE t \in at : \A u \in at : u[3] = t[3] \/ Before(u[3], t[3]))[2]]

\* ------------------------------------------------------------- bind groups

A == 0
B == 1

bindGroupsAliased(k) ==
    IF k = 0 THEN [binding1 |-> A, binding2 |-> B]
    ELSE [binding1 |-> B, binding2 |-> B]

\* const bindGroups = [ {1: cellStateStorage[0], 2: cellStateStorage[1]},
\*                      {1: cellStateStorage[1], 2: cellStateStorage[0]} ]
\* (binding 0, the uniform buffer, is the same in both)
bindGroups(k) ==
    IF k = 0 THEN [binding1 |-> A, binding2 |-> B]
    ELSE [binding1 |-> B, binding2 |-> A]

\* binding 1 declared writable storage as well
bindGroupLayoutWritableInput ==
    [binding1 |-> [visibility |-> {"VERTEX", "COMPUTE"}, type |-> "storage"],
     binding2 |-> [visibility |-> {"COMPUTE"}, type |-> "storage"]]

\* const bindGroupLayout = device.createBindGroupLayout({entries: [...]}): the
\* two storage-buffer entries (binding 0 is the uniform buffer `grid`)
bindGroupLayout ==
    [binding1 |-> [visibility |-> {"VERTEX", "COMPUTE"}, type |-> "read-only-storage"],
     binding2 |-> [visibility |-> {"COMPUTE"}, type |-> "storage"]]

\* The shader stages a pass runs that use the storage bindings: computeMain
\* in a compute pass, vertexMain in a render pass (fragmentMain uses no
\* binding).
Stages(kind) == IF kind = "compute" THEN {"COMPUTE"} ELSE {"VERTEX"}

\* The storage buffers a pass with bind group k set can use with the given
\* access: those bound at an entry of that type visible to a stage it runs.
StorageBound(kind, k, type) ==
    {bindGroups(k)[b] : b \in {e \in DOMAIN bindGroupLayout :
                                   /\ bindGroupLayout[e].type = type
                                   /\ bindGroupLayout[e].visibility \cap Stages(kind) # {}}}

\* const vertices = new Float32Array([...]), in tenths
vertices == <<-8, -8,  8, -8,  8, 8,  -8, -8,  8, 8,  -8, 8>>

\* -------------------------------------------------------- the cell shader

\* column and row exchanged
vertexMainTransposed(cellState, instance, pos) ==
    LET i     == instance
        cell  == <<i \div GRID_SIZE, i % GRID_SIZE>>
        state == Load(cellState, instance)
    IN  [instance |-> instance,
         cell     |-> cell,
         state    |-> state,
         gridPos  |-> <<pos[1] * state + 10 + 20 * cell[1] - 10 * GRID_SIZE,
                        pos[2] * state + 10 + 20 * cell[2] - 10 * GRID_SIZE>>]

\* fn vertexMain(input): i = f32(input.instance) (exact: the instance index is
\* below 2^24), cell = (i % grid.x, floor(i / grid.x)), state =
\* f32(cellState[input.instance]), and
\*   gridPos = (input.pos * state + 1) / grid - 1 + cell / grid * 2.
\* pos is in tenths (as `vertices`) and gridPos in units of 1 / (10 * GRID_SIZE)
\* of clip space: gridPos * 10 * grid = pos * state + 10 - 10 * grid + 20 * cell.
vertexMain(cellState, instance, pos) ==
    LET i     == instance
        cell  == <<i % GRID_SIZE, i \div GRID_SIZE>>
        state == Load(cellState, instance)
    IN  [instance |-> instance,
         cell     |-> cell,
         state    |-> state,
         gridPos  |-> <<pos[1] * state + 10 + 20 * cell[1] - 10 * GRID_SIZE,
                        pos[2] * state + 10 + 20 * cell[2] - 10 * GRID_SIZE>>]

\* The point p (in gridPos units) lies in the square of clip space that is
\* column col, row row of the grid: [-1 + 2 col / W, -1 + 2 (col + 1) / W] in
\* x, and the same in y by row.
InSquare(p, col, row) ==
    /\ 20 * col - 10 * GRID_SIZE <= p[1] /\ p[1] <= 20 * col - 10 * GRID_SIZE + 20
    /\ 20 * row - 10 * GRID_SIZE <= p[2] /\ p[2] <= 20 * row - 10 * GRID_SIZE + 20

\* pass.draw(vertexCount, instanceCount) with cellState at binding 1: what
\* the frame shows in each square of the grid, the square (col, row) at
\* index row * GRID_SIZE + col.  A square is lit when the quad of some
\* instance lies in it; the quad of an instance whose state is 0 is a single
\* point and lights nothing.
Frame(cellState, size) ==
    [c \in Cells |->
        IF \E instance \in 0 .. (size[2] - 1) :
              /\ Load(cellState, instance) # 0
              /\ \A v \in 1 .. size[1] :
                    InSquare(vertexMain(cellState, instance,
                                        <<vertices[2 * v - 1], vertices[2 * v]>>).gridPos,
                             c % GRID_SIZE, c \div GRID_SIZE)
        THEN 1 ELSE 0]

\* ------------------------------------------------------- recorded commands

\* computePass.setPipeline(simulationPipeline); setBindGroup(0, bindGroups[step % 2]);
\* dispatchWorkgroups(workgroupCount, workgroupCount); end()
ComputePassOf(s) ==
    [kind |-> "compute", bindGroup |-> s % 2, size |-> <<workgroupCount, workgroupCount>>]

RenderPassStale(s) ==
    [kind |-> "render", bindGroup |-> (s + 1) % 2,
     size |-> <<Len(vertices) \div 2, GRID_SIZE * GRID_SIZE>>]

\* pass.setPipeline(cellPipeline); setVertexBuffer(0, vertexBuffer);
\* setBindGroup(0, bindGroups[step % 2]); draw(vertices.length / 2, GRID_SIZE * GRID_SIZE); end()
RenderPassOf(s) ==
    [kind |-> "render", bindGroup |-> s % 2,
     size |-> <<Len(vertices) \div 2, GRID_SIZE * GRID_SIZE>>]

SubmitEachPass(q, recorded) == q \o [k \in 1..Len(recorded) |-> <<recorded[k]>>]

\* device.queue.submit([encoder.finish()]): one command buffer holding the
\* encoder's passes in recording order.
Submitted(q, recorded) == Append(q, recorded)

\* ------------------------------------------------------------ initial state

Zeros == [i \in Cells |-> 0]

GridOf(S) == [i \in Cells |-> IF i \in S THEN 1 ELSE 0]

\* len cells in a row (horizontal) or a column, from (x, y), on the torus
RunCells(x, y, horizontal, len) ==
    {((y + (IF horizontal THEN 0 ELSE k)) % GRID_SIZE) * GRID_SIZE
       + ((x + (IF horizontal THEN k ELSE 0)) % GRID_SIZE) : k \in 0..(len - 1)}

RunGrids ==
    {GridOf(RunCells(x, y, h, len)) :
        x \in 0..(GRID_SIZE - 1), y \in 0..(GRID_SIZE - 1), h \in BOOLEAN, len \in 0..MaxRun}

OriginRunGrids ==
    {GridOf(RunCells(0, 0, h, len)) : h \in BOOLEAN, len \in 0..MaxRun}

DenseGrids == {GridOf(S) : S \in SUBSET (Cells \cap (0..(MaxCells - 1)))}

NoInvocation == [id |-> <<>>, reads |-> <<>>, activeNeighbors |-> 0, i |-> 0, writes |-> <<>>]

\* The state when run() reaches setInterval (line 398) with every creation
\* call succeeded: buffer A holds cellStateArray (writeBuffer, line 293),
\* buffer B is zero-initialised.
Started ==
    /\ cellStateStorage = [b \in {A, B} |-> IF b = A THEN cellStateArray ELSE Zeros]
    /\ rerunStorage = cellStateStorage
    /\ step = 0
    /\ pc = "idle"
    /\ resources = "valid"
    /\ encoder = <<>>
    /\ queue = <<>>
    /\ gpuBatch = 0
    /\ gpuPass = 0
    /\ canvas = <<>>
    /\ completion = "none"
    /\ invocation = NoInvocation

Init ==
    /\ GRID_SIZE \in 1..MaxGrid
    /\ WORKGROUP_SIZE \in {t \in 1..MaxTile : GRID_SIZE % t = 0}
    /\ cellStateArray \in OriginRunGrids
    /\ Started

\* --------------------------------------------------- updateGrid on the host

\* What updateGrid and the device never assign: the constants, the host
\* array and the objects run() created.
config == <<GRID_SIZE, WORKGROUP_SIZE, cellStateArray, resources>>
device == <<cellStateStorage, rerunStorage, gpuBatch, gpuPass, canvas>>

\* setInterval fires and updateGrid begins: const encoder = device.createCommandEncoder()
CreateCommandEncoder ==
    /\ pc = "idle"
    /\ step < MaxStep
    /\ pc' = "encoding"
    /\ encoder' = <<>>
    /\ UNCHANGED <<config, device, step, queue, completion, invocation>>

\* lines 348-358: the compute pass is recorded
RecordComputePass ==
    /\ pc = "encoding"
    /\ encoder' = Append(encoder, ComputePassOf(step))
    /\ pc' = "computed"
    /\ UNCHANGED <<config, device, step, queue, completion, invocation>>

\* line 360: step++
IncrementStep ==
    /\ pc = "computed"
    /\ step' = step + 1
    /\ pc' = "stepped"
    /\ UNCHANGED <<config, device, encoder, queue, completion, invocation>>

\* lines 368-383: the render pass is recorded
RecordRenderPass ==
    /\ pc = "stepped"
    /\ encoder' = Append(encoder, RenderPassOf(step))
    /\ pc' = "rendered"
    /\ UNCHANGED <<config, device, step, queue, completion, invocation>>

\* lines 387-395: encoder.finish() and device.queue.submit; updateGrid
\* returns.  Passes recorded with an invalid pipeline, bind group or buffer
\* make the command buffer invalid: submit raises a validation error on the
\* device (no exception) and the queue takes nothing.
Submit ==
    /\ pc = "rendered"
    /\ queue' = IF resources = "valid" THEN Submitted(queue, encoder) ELSE queue
    /\ encoder' = <<>>
    /\ pc' = "idle"
    /\ completion' = "normal"
    /\ UNCHANGED <<config, device, step, invocation>>

\* A call of updateGrid throws: while the compute pass is recorded (lines
\* 348-358), while the frame target is acquired and the render pass recorded
\* (context.getCurrentTexture() and lines 368-383), or in finish/submit (lines
\* 387-395).  updateGrid has no try/catch: the exception leaves it, the
\* encoder (a local) is lost, every assignment already made stays, and
\* setInterval calls updateGrid again at the next interval.  (A recording
\* error that WebGPU reports through the command buffer instead - submit
\* drops an invalid command buffer - leaves the same state.)
Throw ==
    /\ pc \in {"encoding", "stepped", "rendered"}
    /\ encoder' = <<>>
    /\ pc' = "idle"
    /\ completion' = "throw"
    /\ UNCHANGED <<config, device, step, queue, invocation>>

\* ------------------------------------------------------------ the device

\* The pass the device executes next: the queue executes command buffers in
\* submission order and the passes of one in recording order.
NextPass == queue[gpuBatch + 1][gpuPass + 1]

\* the last pass of a command buffer never retires
PassDoneNeverRetires ==
    /\ gpuBatch' = gpuBatch
    /\ gpuPass' = IF gpuPass + 1 = Len(queue[gpuBatch + 1]) THEN gpuPass ELSE gpuPass + 1

PassDone ==
    IF gpuPass + 1 = Len(queue[gpuBatch + 1])
    THEN gpuBatch' = gpuBatch + 1 /\ gpuPass' = 0
    ELSE gpuBatch' = gpuBatch /\ gpuPass' = gpuPass + 1

\* The device executes a compute pass: computeMain for every invocation of
\* the dispatch, binding 1 as cellStateIn and binding 2 as cellStateOut.
GpuComputePass ==
    /\ gpuBatch < Len(queue)
    /\ NextPass.kind = "compute"
    /\ LET in  == bindGroups(NextPass.bindGroup).binding1
           out == bindGroups(NextPass.bindGroup).binding2
       IN  /\ \E result \in ComputePassOutcomes(cellStateStorage[in], cellStateStorage[out]) :
                cellStateStorage' = [cellStateStorage EXCEPT ![out] = result]
    /\ PassDone
    /\ UNCHANGED <<config, rerunStorage, step, pc, encoder, queue, canvas, completion, invocation>>

\* a render pass that clears the buffer it has drawn
GpuRenderPassClearing ==
    /\ gpuBatch < Len(queue)
    /\ NextPass.kind = "render"
    /\ canvas' = Frame(cellStateStorage[bindGroups(NextPass.bindGroup).binding1], NextPass.size)
    /\ cellStateStorage' =
          [cellStateStorage EXCEPT ![bindGroups(NextPass.bindGroup).binding1] = Zeros]
    /\ PassDone
    /\ UNCHANGED <<config, rerunStorage, step, pc, encoder, queue, completion, invocation>>

\* The device executes a render pass: vertexMain reads cellState (binding 1)
\* for each instance of the draw and places its quad; the frame shows the
\* quads.
GpuRenderPass ==
    /\ gpuBatch < Len(queue)
    /\ NextPass.kind = "render"
    /\ canvas' = Frame(cellStateStorage[bindGroups(NextPass.bindGroup).binding1], NextPass.size)
    /\ PassDone
    /\ UNCHANGED <<config, cellStateStorage, rerunStorage, step, pc, encoder, queue, completion,
                   invocation>>

Next ==
    \/ CreateCommandEncoder
    \/ RecordComputePass
    \/ IncrementStep
    \/ RecordRenderPass
    \/ Submit
    \/ Throw
    \/ GpuComputePass
    \/ GpuRenderPass

Spec == Init /\ [][Next]_vars

\* The device finishes the pass that is next in the queue.  In Spec the steps
\* that change <<gpuBatch, gpuPass>> are exactly those of GpuComputePass and
\* GpuRenderPass, one of which is enabled whenever a pass is pending.
PassRetires == gpuBatch < Len(queue) /\ PassDone

\* The device queue keeps executing what was submitted: a pending pass is
\* eventually executed.  (Nothing in the program removes work from the queue,
\* destroys a resource or clears the timer.)
SpecFair == Spec /\ WF_<<gpuBatch, gpuPass>>(PassRetires)

\* ------------------------------------------------- run(), from its start

\* run() is called (line 403): nothing is created yet.
InitStartup ==
    /\ GRID_SIZE \in 1..MaxGrid
    /\ WORKGROUP_SIZE \in {t \in 1..MaxTile : GRID_SIZE % t = 0}
    /\ cellStateArray \in OriginRunGrids
    /\ cellStateStorage = [b \in {A, B} |-> <<>>]
    /\ rerunStorage = cellStateStorage
    /\ step = 0
    /\ pc = "run"
    /\ resources = "none"
    /\ encoder = <<>>
    /\ queue = <<>>
    /\ gpuBatch = 0
    /\ gpuPass = 0
    /\ canvas = <<>>
    /\ completion = "none"
    /\ invocation = NoInvocation

\* What the steps of run() before setInterval leave alone.
startup == <<GRID_SIZE, WORKGROUP_SIZE, cellStateArray, rerunStorage, gpuBatch, gpuPass, canvas,
             step, encoder, queue, completion, invocation>>

\* lines 22-24: if (!navigator.gpu) throw
NavigatorGpu ==
    /\ pc = "run"
    /\ \E supported \in BOOLEAN :
          pc' = IF supported THEN "requestAdapter" ELSE "rejected"
    /\ UNCHANGED <<startup, cellStateStorage, resources>>

\* lines 30-33: await navigator.gpu.requestAdapter(); if (!adapter) throw
RequestAdapter ==
    /\ pc = "requestAdapter"
    /\ \E adapter \in {"GPUAdapter", "null"} :
          pc' = IF adapter = "null" THEN "rejected" ELSE "requestDevice"
    /\ UNCHANGED <<startup, cellStateStorage, resources>>

\* line 37: await adapter.requestDevice(); a rejected promise rejects run()
RequestDevice ==
    /\ pc = "requestDevice"
    /\ \E settled \in {"resolved", "rejected"} :
          pc' = IF settled = "rejected" THEN "rejected" ELSE "configure"
    /\ UNCHANGED <<startup, cellStateStorage, resources>>

\* lines 40-45: canvas.getContext("webgpu") and context.configure(...); an
\* exception (no canvas element, no context) leaves run()
ConfigureCanvas ==
    /\ pc = "configure"
    /\ \E thrown \in BOOLEAN :
          pc' = IF thrown THEN "rejected" ELSE "create"
    /\ UNCHANGED <<startup, cellStateStorage, resources>>

\* lines 67-337: the buffers, layouts, shader modules, pipelines and bind
\* groups are created and the buffers written.  A creation call that fails
\* (out of memory, validation) raises an error on the device and returns an
\* invalid object; it does not throw, and run() neither opens an error scope
\* nor looks at what was returned.  A call can also throw an exception, which
\* leaves run().
CreateResources ==
    /\ pc = "create"
    /\ \E outcome \in {"valid", "invalid", "throw"} :
          /\ pc' = IF outcome = "throw" THEN "rejected" ELSE "setInterval"
          /\ resources' = IF outcome = "throw" THEN resources ELSE outcome
          /\ cellStateStorage' =
                IF outcome = "valid"
                THEN [b \in {A, B} |-> IF b = A THEN cellStateArray ELSE Zeros]
                ELSE cellStateStorage
    /\ UNCHANGED startup

\* line 398: setInterval(updateGrid, UPDATE_INTERVAL); from here on the timer
\* calls updateGrid
SetInterval ==
    /\ pc = "setInterval"
    /\ pc' = "idle"
    /\ UNCHANGED <<startup, cellStateStorage, resources>>

NextStartup ==
    \/ NavigatorGpu
    \/ RequestAdapter
    \/ RequestDevice
    \/ ConfigureCanvas
    \/ CreateResources
    \/ SetInterval
    \/ Next

SpecStartup == InitStartup /\ [][NextStartup]_vars

\* ------------------------------------------- computeMain, one invocation

InitKernel ==
    /\ GRID_SIZE \in 1..MaxGrid
    /\ WORKGROUP_SIZE \in 1..MaxTile
    /\ cellStateArray \in DenseGrids
    /\ Started

\* One invocation of the first tick's dispatch (bindGroups[0]) runs.
Invoke ==
    /\ invocation = NoInvocation
    /\ \E id \in Invocations :
          invocation' = computeMain(cellStateStorage[bindGroups(0).binding1], id)
    /\ UNCHANGED <<config, device, step, pc, encoder, queue, completion>>

NextKernel == Invoke

SpecKernel == InitKernel /\ [][NextKernel]_vars

\* ------------------------------------------------- two runs of the program

InitRuns ==
    /\ GRID_SIZE \in 1..MaxGrid
    /\ WORKGROUP_SIZE \in 1..MaxTile
    /\ cellStateArray \in RunGrids
    /\ Started

\* One tick in each of two runs started from the same cellStateArray:
\* updateGrid runs to its end (lines 343-396) and the device executes the
\* command buffer, the compute pass and then the render pass.  The first
\* run's device orders the invocations of the dispatch in any way, the
\* second's runs them one after another.  The runs are compared up to their
\* first difference.
TickBoth ==
    /\ step < MaxRunTicks
    /\ rerunStorage = cellStateStorage
    /\ LET compute == ComputePassOf(step)
           render  == RenderPassOf(step + 1)
           in      == bindGroups(compute.bindGroup).binding1
           out     == bindGroups(compute.bindGroup).binding2
       IN  /\ \E result \in ComputePassOutcomes(cellStateStorage[in], cellStateStorage[out]) :
                cellStateStorage' = [cellStateStorage EXCEPT ![out] = result]
           /\ rerunStorage' = [rerunStorage EXCEPT ![out] =
                                   SequentialOutcome(rerunStorage[in], rerunStorage[out])]
           /\ canvas' = Frame(cellStateStorage'[bindGroups(render.bindGroup).binding1], render.size)
           /\ queue' = Submitted(queue, <<compute, render>>)
    /\ step' = step + 1
    /\ gpuBatch' = gpuBatch + 1
    /\ completion' = "normal"
    /\ UNCHANGED <<config, pc, encoder, gpuPass, invocation>>

NextRuns == TickBoth

SpecRuns == InitRuns /\ [][NextRuns]_vars

\* =================================================================== claims

\* The passes recorded so far: in the encoder and in every submitted command
\* buffer.
CommandBuffers == {queue[n] : n \in 1..Len(queue)} \cup {encoder}

ComputeIn(pass)  == bindGroups(pass.bindGroup).binding1
ComputeOut(pass) == bindGroups(pass.bindGroup).binding2
RenderIn(pass)   == bindGroups(pass.bindGroup).binding1

Kinds(buffer) == [k \in 1..Len(buffer) |-> buffer[k].kind]

\* The buffer that holds the most recently computed generation: the output
\* of the last submitted compute pass, and buffer A (the uploaded
\* cellStateArray) while nothing has been submitted.
LatestGeneration ==
    IF queue = <<>> THEN A ELSE ComputeOut(queue[Len(queue)][1])

\* ---- C1 (Spec)
\* C1: a tick that fails while recording has no effect on the simulation:
\* between ticks, the buffer the next tick's compute pass will read is the
\* buffer holding the most recently computed generation.
C1_FailedTickHasNoEffect ==
    pc = "idle" => ComputeIn(ComputePassOf(step)) = LatestGeneration

\* ---- C2 (Spec)
\* C2: in every tick, for either parity of step, the buffer bound as input
\* (binding 1) of the recorded compute pass is not the buffer bound as its
\* output (binding 2).
C2_ComputeInputIsNotOutput ==
    \A buffer \in CommandBuffers : \A k \in 1..Len(buffer) :
        buffer[k].kind = "compute" => ComputeIn(buffer[k]) # ComputeOut(buffer[k])

\* Compute passes of both parities have been executed by the device.
C2_Witness ==
    /\ gpuBatch >= 2
    /\ \E m, n \in 1..gpuBatch : queue[m][1].bindGroup = 0 /\ queue[n][1].bindGroup = 1

\* ---- C3 (Spec)
\* C3: in every tick the render pass reads (binding 1) the buffer the compute
\* pass recorded before it in the same command buffer writes (binding 2), and
\* not the buffer that compute pass reads; and what an executed command
\* buffer has drawn is the content its compute pass wrote.
C3_RenderReadsComputeOutput ==
    /\ \A buffer \in CommandBuffers : \A k \in 2..Len(buffer) :
          (buffer[k].kind = "render" /\ buffer[k-1].kind = "compute") =>
              /\ RenderIn(buffer[k]) = ComputeOut(buffer[k-1])
              /\ RenderIn(buffer[k]) # ComputeIn(buffer[k-1])
    /\ (gpuBatch >= 1 /\ gpuPass = 0) =>
          canvas = cellStateStorage[ComputeOut(queue[gpuBatch][1])]

\* A command buffer has been executed whose compute pass changed the state:
\* the frame shows the new state, which differs from what the pass read.
C3_Witness ==
    /\ gpuBatch >= 1
    /\ gpuPass = 0
    /\ canvas = cellStateStorage[ComputeOut(queue[gpuBatch][1])]
    /\ canvas # cellStateStorage[ComputeIn(queue[gpuBatch][1])]

\* ---- C4 (Spec)
\* C4: ping-pong across ticks: each submitted compute pass reads the buffer
\* the one before it wrote; after N completed ticks (N = the number of calls
\* of updateGrid that returned normally = the command buffers submitted) the
\* buffer the next compute pass reads is A when N is even and B when N is
\* odd.
C4_PingPongByCompletedTicks ==
    /\ \A n \in 1..(Len(queue) - 1) : ComputeIn(queue[n+1][1]) = ComputeOut(queue[n][1])
    /\ pc = "idle" =>
          ComputeIn(ComputePassOf(step)) = (IF Len(queue) % 2 = 0 THEN A ELSE B)

\* ---- C5 (Spec)
\* C5: no partial submission: every submitted command buffer holds exactly
\* one compute pass followed by exactly one render pass, and a call of
\* updateGrid that throws leaves the queue as it was.
C5_NoPartialSubmission ==
    /\ [](\A n \in 1..Len(queue) : Kinds(queue[n]) = <<"compute", "render">>)
    /\ [][(pc # "idle" /\ pc' = "idle" /\ completion' = "throw") => queue' = queue]_vars

\* A tick has thrown after its compute pass was recorded (step was
\* incremented, nothing was submitted for it) and other ticks were submitted.
C5_Witness ==
    /\ completion = "throw"
    /\ pc = "idle"
    /\ step > Len(queue)
    /\ Len(queue) >= 1

\* ---- C6 (SpecKernel)
\* The index of cell ((x + dx) mod W, (y + dy) mod H), row-major.
TorusIndex(x, y) ==
    (((y + GRID_SIZE) % GRID_SIZE) * GRID_SIZE) + ((x + GRID_SIZE) % GRID_SIZE)

\* The offsets (dx, dy) of the eight neighbours, in the order computeMain
\* sums them.
Offsets == << <<1, 1>>, <<1, 0>>, <<1, -1>>, <<0, -1>>, <<-1, -1>>, <<-1, 0>>, <<-1, 1>>, <<0, 1>> >>

InGrid(id) == id[1] < GRID_SIZE /\ id[2] < GRID_SIZE

WrapsToroidally ==
    \A k \in 1..8 :
        invocation.reads[k] =
            TorusIndex(invocation.id[1] + Offsets[k][1], invocation.id[2] + Offsets[k][2])

\* GRID_SIZE divides 2^32 (it is a power of two): 2^32 mod n = (2^16 mod n)^2 mod n
DividesTwoTo32(n) == ((Limb % n) * (Limb % n)) % n = 0

\* C6 as stated: for every grid side length and every cell (x, y) of the
\* grid, the eight indices the kernel reads are those of ((x + dx) mod W,
\* (y + dy) mod H).
C6_ToroidalWrapAnySize ==
    (invocation # NoInvocation /\ InGrid(invocation.id)) => WrapsToroidally

\* C6 amended: the same for every grid side length that is a power of two,
\* and for any side length for the cells with x >= 1 and y >= 1.
C6_ToroidalWrapPowerOfTwo ==
    (/\ invocation # NoInvocation
     /\ InGrid(invocation.id)
     /\ DividesTwoTo32(GRID_SIZE) \/ (invocation.id[1] >= 1 /\ invocation.id[2] >= 1))
    => WrapsToroidally

\* Cell (0, 0) of a 4x4 grid: x - 1 and y - 1 underflow, and the kernel
\* reads (3, 3), (3, 0) and (0, 3).
C6_Witness ==
    /\ invocation # NoInvocation
    /\ GRID_SIZE = 4
    /\ invocation.id = <<0, 0>>
    /\ invocation.reads[5] = 15
    /\ invocation.reads[6] = 3
    /\ invocation.reads[4] = 12

\* ---- C7 (SpecKernel)
\* C7: the invocation stores exactly once, to its own cell: the cell's input
\* value when the alive-neighbour count (the sum of the eight cells read) is
\* 2, 1 when it is 3, and 0 for every other count.
C7_RuleCorrectness ==
    invocation # NoInvocation =>
        LET in == cellStateStorage[A]
            i  == TorusIndex(invocation.id[1], invocation.id[2])
            n  == SumSeq([k \in 1..8 |-> in[invocation.reads[k]]])
        IN  /\ invocation.activeNeighbors = n
            /\ n \in 0..8
            /\ invocation.writes =
                  << <<i, IF n = 2 THEN in[i] ELSE IF n = 3 THEN 1 ELSE 0>> >>

\* A live cell with exactly two live neighbours stays alive.
C7_Witness ==
    /\ invocation # NoInvocation
    /\ invocation.activeNeighbors = 2
    /\ cellStateStorage[A][invocation.i] = 1
    /\ invocation.writes = << <<invocation.i, 1>> >>

\* ---- C8 (SpecRuns)
\* C8 as stated: for any grid side length and tile size, two runs started
\* from the same grid that executed the same ticks hold the same cell state,
\* whatever the order of the invocations.
C8_DeterministicAnySize == rerunStorage = cellStateStorage

\* C8 amended: the same when the grid side length is a power of two (any
\* tile size) or the tile size divides the grid side length.
C8_DeterministicPowerOfTwo ==
    (DividesTwoTo32(GRID_SIZE) \/ GRID_SIZE % WORKGROUP_SIZE = 0) =>
        rerunStorage = cellStateStorage

\* Two ticks on a 4x4 grid with 3x3 tiles: the invocations with global id 4
\* and 5 wrap onto the cells of column and row 0 and 1.
C8_Witness ==
    /\ GRID_SIZE = 4
    /\ WORKGROUP_SIZE = 3
    /\ step >= 2
    /\ cellStateStorage[A] # Zeros
    /\ rerunStorage = cellStateStorage

\* ---- C9 (SpecRuns)
\* The run of three cells from (x, y), turned by 90 degrees about its middle
\* cell.
Rotated(x, y, horizontal) ==
    IF horizontal
    THEN RunCells((x + 1) % GRID_SIZE, (y + GRID_SIZE - 1) % GRID_SIZE, FALSE, 3)
    ELSE RunCells((x + GRID_SIZE - 1) % GRID_SIZE, (y + 1) % GRID_SIZE, TRUE, 3)

\* C9: on a 4x4 grid that starts as three live cells in a row, the state
\* after one tick (buffer B, and the frame drawn) is the line turned by 90
\* degrees about its middle cell, and the state after two ticks (buffer A,
\* and the frame drawn) is the initial state.
C9_Blinker ==
    GRID_SIZE = 4 =>
        \A x, y \in 0..3 : \A h \in BOOLEAN :
            cellStateArray = GridOf(RunCells(x, y, h, 3)) =>
                /\ step = 1 => /\ cellStateStorage[B] = GridOf(Rotated(x, y, h))
                               /\ canvas = GridOf(Rotated(x, y, h))
                /\ step = 2 => /\ cellStateStorage[A] = cellStateArray
                               /\ cellStateStorage[B] = GridOf(Rotated(x, y, h))
                               /\ canvas = cellStateArray

\* The row (0,1), (1,1), (2,1) after two ticks: buffer B holds the column
\* (1,0), (1,1), (1,2) and buffer A the row again.
C9_Witness ==
    /\ GRID_SIZE = 4
    /\ step = 2
    /\ cellStateArray = GridOf({4, 5, 6})
    /\ cellStateStorage[B] = GridOf({1, 5, 9})
    /\ cellStateStorage[A] = GridOf({4, 5, 6})

\* ---- C10 (Spec)
\* C10: the device executes the command buffers in submission order, one
\* pass at a time, and the compute pass of each command buffer reads the
\* buffer (and so the cell state) the compute pass of the command buffer
\* before it wrote.
C10_NextBatchReadsPreviousOutput ==
    /\ gpuBatch <= Len(queue)
    /\ \A n \in 1..(Len(queue) - 1) : ComputeIn(queue[n+1][1]) = ComputeOut(queue[n][1])

\* ---- C11 (SpecStartup)
\* The timer is set or updateGrid is running.
Scheduled == pc \in {"idle", "encoding", "computed", "stepped", "rendered"}

\* C11: no tick is scheduled or executed unless initialization has fully
\* succeeded: when WebGPU is unsupported, no adapter is found, the device
\* request fails or the creation of a buffer, pipeline or bind group fails,
\* setInterval is not reached and updateGrid does not run.
C11_NoTickUnlessInitialized == Scheduled => resources = "valid"

\* ---- C12 (Spec)
\* The storage buffers a recorded pass can write and those it can only read.
StorageWritten(pass) == StorageBound(pass.kind, pass.bindGroup, "storage")
StorageRead(pass)    == StorageBound(pass.kind, pass.bindGroup, "read-only-storage")

\* C12 as stated: in every tick exactly one storage buffer is the write
\* target of the compute pass, and the other buffer is the one read by the
\* compute pass and by the render pass that follows it.
C12_RenderReadsNonWritten ==
    \A buffer \in CommandBuffers : \A k \in 1..Len(buffer) :
        buffer[k].kind = "compute" =>
            /\ Cardinality(StorageWritten(buffer[k])) = 1
            /\ StorageRead(buffer[k]) = {A, B} \ StorageWritten(buffer[k])
            /\ (k < Len(buffer) /\ buffer[k+1].kind = "render") =>
                   StorageRead(buffer[k+1]) = {A, B} \ StorageWritten(buffer[k])

\* C12 amended: in every tick exactly one storage buffer is the write target
\* of the compute pass and the other buffer is the one the compute pass
\* reads; the render pass that follows reads the write target (the buffer
\* just written) and can write neither buffer.
C12_RenderReadsWriteTarget ==
    \A buffer \in CommandBuffers : \A k \in 1..Len(buffer) :
        buffer[k].kind = "compute" =>
            /\ Cardinality(StorageWritten(buffer[k])) = 1
            /\ StorageRead(buffer[k]) = {A, B} \ StorageWritten(buffer[k])
            /\ (k < Len(buffer) /\ buffer[k+1].kind = "render") =>
                   /\ StorageRead(buffer[k+1]) = StorageWritten(buffer[k])
                   /\ StorageWritten(buffer[k+1]) = {}

\* Two ticks have been executed: the first wrote B and drew from B, the
\* second wrote A and drew from A.
C12_Witness ==
    /\ gpuBatch >= 2
    /\ gpuPass = 0
    /\ StorageWritten(queue[1][1]) = {B} /\ StorageRead(queue[1][2]) = {B}
    /\ StorageWritten(queue[2][1]) = {A} /\ StorageRead(queue[2][2]) = {A}

\* ---- C13 (SpecKernel)
\* C13: for any grid side length and tile size, every index an invocation of
\* the dispatch stores to lies in 0 .. width*height - 1, also when the
\* invocation belongs to a tile that extends past the grid edge.
C13_WritesInBounds ==
    invocation # NoInvocation =>
        /\ invocation.writes # <<>>
        /\ \A k \in 1..Len(invocation.writes) :
              invocation.writes[k][1] \in 0 .. (GRID_SIZE * GRID_SIZE - 1)

\* An invocation past the grid edge in both directions (3x3 grid, 2x2 tiles,
\* global id (3, 3)) has stored, to cell 0.
C13_Witness ==
    /\ GRID_SIZE = 3
    /\ WORKGROUP_SIZE = 2
    /\ invocation # NoInvocation
    /\ invocation.id = <<3, 3>>
    /\ invocation.writes[1][1] = 0

\* ---- C14 (Spec)
\* Every cell of the write target is stored to by some invocation of a
\* dispatch that reads cellStateIn.
EveryCellStored(cellStateIn) ==
    \A i \in Cells : StoredAt(DispatchStores(cellStateIn), i) # {}

\* No submitted compute pass reads buffer B before a compute pass submitted
\* earlier has written it: what B held when it was created is never read.
InitialBNeverRead ==
    \A n \in 1..Len(queue) :
        ComputeIn(queue[n][1]) = B => \E m \in 1..(n - 1) : ComputeOut(queue[m][1]) = B

\* C14: for any grid side length and tile size the dispatch of
\* ceil(W/T) x ceil(W/T) tiles stores to every one of the W*W cells of the
\* write target; so the first tick overwrites buffer B in full and the cell
\* state after any number of ticks does not depend on what B held initially.
C14_FullCoverageBIrrelevant ==
    /\ InitialBNeverRead
    /\ \A b \in {A, B} : EveryCellStored(cellStateStorage[b])

\* ---- C15 (Spec)
\* The device is about to execute a compute pass.
ComputePassPending == gpuBatch < Len(queue) /\ NextPass.kind = "compute"

\* C15: in every reachable state every cell of both storage buffers is 0 or
\* 1, and every alive-neighbour count the kernel computes (in each invocation
\* of a compute pass the device executes) is in 0..8.
C15_ValueDomain ==
    /\ \A b \in {A, B} : \A i \in Cells : cellStateStorage[b][i] \in {0, 1}
    /\ ComputePassPending =>
          \A id \in Invocations :
              computeMain(cellStateStorage[ComputeIn(NextPass)], id).activeNeighbors \in 0..8

\* A compute pass has been executed and a cell was born: buffer B holds a 1
\* where buffer A, its input, holds 0.
C15_Witness ==
    /\ gpuBatch >= 1
    /\ step = 1
    /\ \E i \in Cells : cellStateStorage[B][i] = 1 /\ cellStateStorage[A][i] = 0

\* ---- C16 (Spec)
\* The device executes a pass in this step.
PassExecuted == gpuPass' # gpuPass \/ gpuBatch' # gpuBatch

\* A statement of updateGrid runs in this step.
HostStep == pc' # pc

\* C16: a tick changes nothing but the step counter and the content of its
\* compute pass's write target: the host (updateGrid) writes neither storage
\* buffer, an executed compute pass leaves the buffer it reads as it was, an
\* executed render pass leaves both storage buffers as they were, and the
\* objects run() created (bind groups, uniform and vertex buffer, the host
\* array) are not touched.
C16_TickFrame ==
    [][ /\ HostStep => cellStateStorage' = cellStateStorage
        /\ (PassExecuted /\ NextPass.kind = "compute") =>
               /\ cellStateStorage'[ComputeIn(NextPass)] = cellStateStorage[ComputeIn(NextPass)]
               /\ StorageWritten(NextPass) = {ComputeOut(NextPass)}
        /\ (PassExecuted /\ NextPass.kind = "render") =>
               /\ cellStateStorage' = cellStateStorage
               /\ StorageWritten(NextPass) = {}
        /\ cellStateStorage' # cellStateStorage => PassExecuted
        /\ resources' = resources
        /\ cellStateArray' = cellStateArray
      ]_vars

\* The first tick has been executed in full: buffer A still holds the
\* uploaded grid, buffer B (the write target) has changed and was drawn.
C16_Witness ==
    /\ gpuBatch = 1
    /\ gpuPass = 0
    /\ step = 1
    /\ cellStateStorage[A] = cellStateArray
    /\ cellStateStorage[B] # Zeros
    /\ canvas = cellStateStorage[B]

\* ---- C17 (Spec)
\* The calls of updateGrid that have returned normally: each of them, and no
\* other, has submitted one command buffer.
CompletedTicks == Len(queue)

\* C17: step starts at 0, changes only inside updateGrid, grows by exactly 1
\* in every call that returns normally and never decreases; hence between
\* ticks, after N completed ticks, step = N.
C17_StepEqualsCompletedTicks ==
    /\ step \in Nat
    /\ step >= CompletedTicks
    /\ pc = "idle" => step = CompletedTicks

\* ---- C18 (SpecFair)
\* Wherever updateGrid stands after createCommandEncoder, its next statement
\* can run, whatever the device has or has not executed.
HostNeverWaits ==
    /\ pc = "encoding" => ENABLED RecordComputePass
    /\ pc = "computed" => ENABLED IncrementStep
    /\ pc = "stepped"  => ENABLED RecordRenderPass
    /\ pc = "rendered" => ENABLED Submit

\* C18: the host's tick never waits for the device, and with a queue that
\* keeps executing every submitted command buffer is eventually executed to
\* its end, the compute pass first and then the render pass; no submitted
\* command buffer is dropped or stays pending forever.
C18_SubmittedBatchesComplete ==
    /\ [](HostNeverWaits)
    /\ [](gpuBatch <= Len(queue) /\ gpuPass \in {0, 1})
    /\ [](gpuBatch < Len(queue) => NextPass.kind = (IF gpuPass = 0 THEN "compute" ELSE "render"))
    /\ [][Len(queue') >= Len(queue) /\ gpuBatch' >= gpuBatch]_vars
    /\ \A n \in 1..MaxStep : (Len(queue) >= n) ~> (gpuBatch >= n)

\* The host has submitted a third command buffer while the device, the first
\* command buffer executed, is in the middle of the second.
C18_Witness ==
    /\ Len(queue) = 3
    /\ gpuBatch = 1
    /\ gpuPass = 1

\* ---- C19 (Spec)
\* C19: for every instance index i in 0 .. W*H - 1 the render kernel reads
\* cellState[i] and places the quad in column i mod W, row floor(i / W), the
\* inverse of the compute kernel's index y*W + x; so the quad in square
\* (col, row) shows the state the compute pass of the same command buffer
\* stored for cell (x = col, y = row); and every recorded draw is of W*H
\* instances of 6 vertices.
C19_RenderComputeIndexAgreement ==
    /\ \A b \in {A, B} : \A i \in Cells : \A v \in 1..6 :
          LET out == vertexMain(cellStateStorage[b], i, <<vertices[2 * v - 1], vertices[2 * v]>>)
          IN  /\ out.state = cellStateStorage[b][i]
              /\ cellIndex(<<U32(out.cell[1]), U32(out.cell[2])>>) = i
              /\ InSquare(out.gridPos, i % GRID_SIZE, i \div GRID_SIZE)
    /\ (gpuBatch >= 1 /\ gpuPass = 0) =>
          \A x, y \in 0 .. (GRID_SIZE - 1) :
              canvas[y * GRID_SIZE + x] =
                  computeMain(cellStateStorage[ComputeIn(queue[gpuBatch][1])], <<x, y>>).writes[1][2]
    /\ \A buffer \in CommandBuffers : \A k \in 1..Len(buffer) :
          buffer[k].kind = "render" => buffer[k].size = <<6, GRID_SIZE * GRID_SIZE>>

\* A 4x4 grid that started as the row (0,0), (1,0), (2,0): the first command
\* buffer has been executed and the frame shows the column x = 1, rows 3, 0
\* and 1, and nothing in the squares of its transpose.
C19_Witness ==
    /\ GRID_SIZE = 4
    /\ gpuBatch = 1
    /\ gpuPass = 0
    /\ canvas = GridOf({1, 5, 13})

====
